---------------------------- MODULE Spec2Model ----------------------------
(***************************************************************************)
(* BTC-Relay (crates/btc-relay/src/lib.rs): the header store, the per-     *)
(* chain height->hash index, the chain ordering index and the fork-choice  *)
(* / reorganisation engine, as a state machine over the pallet's storage.  *)
(***************************************************************************)
EXTENDS Integers, Sequences, FiniteSets, TLC

(***************************************************************************)
(* Bounds of the model.                                                    *)
(***************************************************************************)
\* calls dispatched in one behaviour
MaxCalls == 3
\* the height initialize is called with ranges over 0..MaxInitHeight
MaxInitHeight == 1
\* number of fork chains in a storage built by the test set-up
MaxForks == 2
\* highest main-chain height in a storage built by the test set-up
MaxMain == 2

\* calls dispatched on a storage built with forks
MaxStores == 2

\* nonces a submitted header may carry (distinct headers on the same parent)
Nonces == {1, 2}
\* nonces range below NonceBase; the first block of the fork with id i, in a
\* storage built by the test set-up, carries nonce i
NonceBase == MaxForks + 2

(***************************************************************************)
(* Program constants.                                                      *)
(***************************************************************************)
MAIN_CHAIN_ID == 0
DIFFICULTY_ADJUSTMENT_INTERVAL == 2016
\* the value at which checked_add(1) on a u32 fails.  The model checker's
\* integers end at 2^31 - 1, so that value stands for u32::max_value(); only
\* the comparison with it is used, never arithmetic beyond it
U32_MAX == 2147483647
\* H256::default(), what a storage getter returns for an absent hash
NoHash == 0

VARIABLES
    BlockHeaders,     \* map H256 => RichBlockHeader
    Chains,           \* linked_map u32 => u32: position -> chain id
    ChainsOrder,      \* linkage of the linked_map: its keys, head first
    ChainsIndex,      \* map u32 => BlockChain
    BestBlock,        \* H256, NoHash while the item is absent
    BestBlockHeight,  \* u32
    ChainCounter,     \* u32
    last,             \* the call that produced this state and its result
    pre,              \* the storage before that call
    calls,            \* number of calls dispatched so far
    merkle_proof,     \* the raw bytes handed to MerkleProof::parse
    proof,            \* the MerkleProof under verification
    proof_result      \* what verify_proof returned for it

vars == <<BlockHeaders, Chains, ChainsOrder, ChainsIndex, BestBlock,
          BestBlockHeight, ChainCounter, last, pre, calls,
          merkle_proof, proof, proof_result>>

merkleVars == <<merkle_proof, proof, proof_result>>
relayVars == <<BlockHeaders, Chains, ChainsOrder, ChainsIndex, BestBlock,
               BestBlockHeight, ChainCounter, last, pre, calls>>

(***************************************************************************)
(* Finite maps (BTreeMap, storage maps) as functions.                      *)
(***************************************************************************)
EmptyMap == [x \in {} |-> 0]

MapPut(f, k, v) == [x \in (DOMAIN f) \cup {k} |-> IF x = k THEN v ELSE f[x]]

MapDel(f, k) == [x \in (DOMAIN f) \ {k} |-> f[x]]

\* BTreeMap::split_off(at): the entries with key >= at
MapSplitOff(f, at) == [x \in {y \in DOMAIN f : y >= at} |-> f[x]]

\* what is left in the map after split_off(at)
MapBelow(f, at) == [x \in {y \in DOMAIN f : y < at} |-> f[x]]

\* BTreeMap::append(other): other's entries are added, overwriting equal keys
MapAppend(f, g) ==
    [x \in (DOMAIN f) \cup (DOMAIN g) |-> IF x \in DOMAIN g THEN g[x] ELSE f[x]]

\* iter().position(|h| h >= at) on a Vec, 0-based; -1 for None
VecPosition(v, at) ==
    IF \E i \in 1..Len(v) : v[i] >= at
    THEN (CHOOSE i \in 1..Len(v) : v[i] >= at /\ \A j \in 1..(i - 1) : v[j] < at) - 1
    ELSE -1

\* Vec::split_off(index), 0-based: the tail from index on
VecSplitOff(v, index) == SubSeq(v, index + 1, Len(v))

\* what is left in the Vec after split_off(index)
VecBefore(v, index) == SubSeq(v, 1, index)

(***************************************************************************)
(* The storage as one value, so that helpers are functions of it.          *)
(***************************************************************************)
Storage ==
    [BlockHeaders |-> BlockHeaders, Chains |-> Chains, ChainsOrder |-> ChainsOrder,
     ChainsIndex |-> ChainsIndex, BestBlock |-> BestBlock,
     BestBlockHeight |-> BestBlockHeight, ChainCounter |-> ChainCounter]

EmptyStorage ==
    [BlockHeaders |-> EmptyMap, Chains |-> EmptyMap, ChainsOrder |-> <<>>,
     ChainsIndex |-> EmptyMap, BestBlock |-> NoHash,
     BestBlockHeight |-> 0, ChainCounter |-> 0]

\* BlockChain::default(), returned by ChainsIndex::get for an absent id
DefaultBlockChain ==
    [chain_id |-> 0, chain |-> EmptyMap, start_height |-> 0, max_height |-> 0,
     no_data |-> <<>>, invalid |-> <<>>]

\* RichBlockHeader::default(), returned by BlockHeaders::get for an absent hash
DefaultRichBlockHeader ==
    [hash_prev_block |-> NoHash, target |-> 0, block_height |-> 0, chain_ref |-> 0]

\* Self::chainindex(id) / <ChainsIndex>::get(id)
chainindex(s, id) ==
    IF id \in DOMAIN s.ChainsIndex THEN s.ChainsIndex[id] ELSE DefaultBlockChain

\* Self::blockheader(hash) / <BlockHeaders>::get(hash)
blockheader(s, hash) ==
    IF hash \in DOMAIN s.BlockHeaders THEN s.BlockHeaders[hash] ELSE DefaultRichBlockHeader

(***************************************************************************)
(* Chains is a linked_map: a map plus a linked list of its keys whose head *)
(* is the most recently inserted key; enumerate() walks that list.         *)
(***************************************************************************)
SeqRemove(q, k) == SelectSeq(q, LAMBDA x : x # k)

\* <Chains>::get(key): the value, or u32::default()
ChainsGet(s, key) == IF key \in DOMAIN s.Chains THEN s.Chains[key] ELSE 0

\* <Chains>::insert(key, val): a new key becomes the head, an old key keeps its link
ChainsInsert(s, key, val) ==
    [s EXCEPT !.Chains = MapPut(s.Chains, key, val),
              !.ChainsOrder = IF key \in DOMAIN s.Chains
                              THEN s.ChainsOrder
                              ELSE <<key>> \o s.ChainsOrder]

\* <Chains>::remove(key)
ChainsRemove(s, key) ==
    [s EXCEPT !.Chains = MapDel(s.Chains, key),
              !.ChainsOrder = SeqRemove(s.ChainsOrder, key)]

\* <Chains>::swap(key1, key2): values are exchanged and the linkage kept; when
\* only one key exists its value moves to the other key, which becomes the head
ChainsSwap(s, key1, key2) ==
    LET has1 == key1 \in DOMAIN s.Chains
        has2 == key2 \in DOMAIN s.Chains
    IN  IF has1 /\ has2
        THEN [s EXCEPT !.Chains = [s.Chains EXCEPT ![key1] = s.Chains[key2],
                                                   ![key2] = s.Chains[key1]]]
        ELSE IF has1
        THEN ChainsInsert(ChainsRemove(s, key1), key2, s.Chains[key1])
        ELSE IF has2
        THEN ChainsInsert(ChainsRemove(s, key2), key1, s.Chains[key2])
        ELSE s

\* <Chains>::enumerate(): the (key, value) pairs in linkage order, head first
ChainsEnumerate(s) ==
    [i \in 1..Len(s.ChainsOrder) |-> <<s.ChainsOrder[i], s.Chains[s.ChainsOrder[i]]>>]

\* <Chains>::head()
ChainsHead(s) == s.ChainsOrder[1]

\* <Chains>::enumerate().position(|(_k, v)| v == chain_id), 0-based; -1 for None
ChainsPosition(s, chain_id) ==
    LET e == ChainsEnumerate(s)
    IN  IF \E i \in 1..Len(e) : e[i][2] = chain_id
        THEN (CHOOSE i \in 1..Len(e) :
                  e[i][2] = chain_id /\ \A j \in 1..(i - 1) : e[j][2] # chain_id) - 1
        ELSE -1

(***************************************************************************)
(* Headers.  A submitted header is its content: the parent hash and a      *)
(* nonce that stands for the rest of the content, the declared target      *)
(* included.  parse_block_header derives block_hash from the content,      *)
(* injectively, and reads the target.                                      *)
(***************************************************************************)
block_hash(hash_prev_block, nonce) == hash_prev_block * NonceBase + nonce

\* the targets a header declares: content 2 declares the low one
LowTarget == 10
HighTarget == 1000000
header_target(nonce) == IF nonce = 2 THEN LowTarget ELSE HighTarget

\* header_from_bytes + parse_block_header
parse_block_header(raw) ==
    [block_hash |-> block_hash(raw.hash_prev_block, raw.nonce),
     hash_prev_block |-> raw.hash_prev_block,
     target |-> header_target(raw.nonce)]

(***************************************************************************)
(* Utility functions of the pallet.                                        *)
(***************************************************************************)
\* increment_chain_counter without the put of the new value
increment_chain_counter_NotStored(s) ==
    [ok |-> TRUE, st |-> s, id |-> s.ChainCounter + 1]

\* checked_add(1) on the counter; on success the new value is stored
increment_chain_counter(s) ==
    IF s.ChainCounter >= U32_MAX
    THEN [ok |-> FALSE, st |-> s, id |-> 0]
    ELSE [ok |-> TRUE, st |-> [s EXCEPT !.ChainCounter = s.ChainCounter + 1],
          id |-> s.ChainCounter + 1]

\* the insert into a fresh BTreeMap never finds an old entry: always Ok
generate_blockchain(chain_id, block_height, hash) ==
    [chain_id |-> chain_id, chain |-> MapPut(EmptyMap, block_height, hash),
     start_height |-> block_height, max_height |-> block_height,
     no_data |-> <<>>, invalid |-> <<>>]

initialize_blockchain(block_height, hash) ==
    generate_blockchain(MAIN_CHAIN_ID, block_height, hash)

\* Err(DuplicateBlock) when the chain already has an entry at block_height
extend_blockchain(block_height, hash, prev_blockchain) ==
    IF block_height \in DOMAIN prev_blockchain.chain
    THEN [ok |-> FALSE, blockchain |-> prev_blockchain]
    ELSE [ok |-> TRUE,
          blockchain |-> [prev_blockchain EXCEPT
                              !.chain = MapPut(prev_blockchain.chain, block_height, hash),
                              !.max_height = block_height]]

\* <ChainsIndex>::mutate(id, |_b| ...) with a closure that ignores _b: the
\* stored value (the default for an absent id) is written back as it was
ChainsIndexMutateIgnored(s, id) ==
    [s EXCEPT !.ChainsIndex = MapPut(s.ChainsIndex, id, chainindex(s, id))]

\* SetChainRefs with a closure that leaves the stored header as it was
SetChainRefs_ValueIgnored(headers, chain, id) == headers

\* <BlockHeaders>::mutate(block, |header| header.chain_ref = id) for every
\* block of the chain (an absent hash is stored as a default header)
SetChainRefs(headers, chain, id) ==
    LET hashes == {chain[h] : h \in DOMAIN chain}
    IN  [x \in (DOMAIN headers) \cup hashes |->
            LET old == IF x \in DOMAIN headers THEN headers[x] ELSE DefaultRichBlockHeader
            IN  IF x \in hashes THEN [old EXCEPT !.chain_ref = id] ELSE old]

\* swap the element with the head of the linked map, then remove the head
remove_blockchain(s, position) ==
    LET head_index == ChainsHead(s)
    IN  ChainsRemove(ChainsSwap(s, position, head_index), head_index)

\* the position insert_sorted settles on: the scan's `let position_blockchain`
\* declares a new variable inside the loop body, so the outer one keeps its
\* initial value, the number of entries
insert_position(s, blockchain) == Cardinality(DOMAIN s.Chains)

\* for curr_position in (position_blockchain..max_chain_element).rev():
\* swap curr_position with curr_position - 1
RECURSIVE InsertSwapLoop(_, _, _)
InsertSwapLoop(s, curr_position, position_blockchain) ==
    IF curr_position < position_blockchain
    THEN s
    ELSE InsertSwapLoop(ChainsSwap(s, curr_position, curr_position - 1),
                        curr_position - 1, position_blockchain)

insert_sorted(s, blockchain) ==
    LET max_chain_element == Cardinality(DOMAIN s.Chains)
        position_blockchain == insert_position(s, blockchain)
        s1 == ChainsInsert(s, max_chain_element, blockchain.chain_id)
    IN  InsertSwapLoop(s1, max_chain_element - 1, position_blockchain)

(***************************************************************************)
(* Promotion of a fork to main chain.                                      *)
(***************************************************************************)
\* ForkedMainChain with max_height taken after the fork was appended
ForkedMainChain_HeightAfterAppend(main_chain, fork, chain_id) ==
    [chain_id |-> chain_id,
     chain |-> MapSplitOff(main_chain.chain, fork.start_height),
     start_height |-> fork.start_height,
     max_height |-> fork.max_height,
     no_data |-> <<>>,
     invalid |-> <<>>]

\* the part of the main chain that the fork displaces, as a chain of its own
ForkedMainChain(main_chain, fork, chain_id) ==
    LET start_height == fork.start_height
        index_no_data == VecPosition(main_chain.no_data, start_height)
        index_invalid == VecPosition(main_chain.invalid, start_height)
    IN  [chain_id |-> chain_id,
         chain |-> MapSplitOff(main_chain.chain, start_height),
         start_height |-> start_height,
         max_height |-> main_chain.max_height,
         no_data |-> IF index_no_data >= 0
                     THEN VecSplitOff(main_chain.no_data, index_no_data) ELSE <<>>,
         invalid |-> IF index_invalid >= 0
                     THEN VecSplitOff(main_chain.invalid, index_invalid) ELSE <<>>]

\* the main chain cut at the fork's start height with the fork appended
AppendedMainChain(main_chain, fork) ==
    LET start_height == fork.start_height
        index_no_data == VecPosition(main_chain.no_data, start_height)
        index_invalid == VecPosition(main_chain.invalid, start_height)
        kept_no_data == IF index_no_data >= 0
                        THEN VecBefore(main_chain.no_data, index_no_data)
                        ELSE main_chain.no_data
        kept_invalid == IF index_invalid >= 0
                        THEN VecBefore(main_chain.invalid, index_invalid)
                        ELSE main_chain.invalid
    IN  [main_chain EXCEPT
            !.chain = MapAppend(MapBelow(main_chain.chain, start_height), fork.chain),
            !.max_height = fork.max_height,
            !.no_data = kept_no_data \o fork.no_data,
            !.invalid = kept_invalid \o fork.invalid]

\* the chain the promotion hands to insert_sorted
ChainInsertedAfterSwap(main_chain, forked_main_chain) == main_chain

\* SetBestBlock without the put of BestBlock
SetBestBlock_HeightOnly(s, main_chain) ==
    [s EXCEPT !.BestBlockHeight = main_chain.max_height]

\* the new tip the promotion stores in BestBlock / BestBlockHeight
SetBestBlock(s, main_chain) ==
    [s EXCEPT !.BestBlock = main_chain.chain[main_chain.max_height],
              !.BestBlockHeight = main_chain.max_height]

\* err is "None" on success; st is the storage the call leaves
swap_main_blockchain(s, fork) ==
    LET old_main == chainindex(s, MAIN_CHAIN_ID)
        counter == increment_chain_counter(s)
    IN  IF ~counter.ok
        THEN [st |-> s, err |-> "ChainCounterOverflow"]
        ELSE
        LET s1 == counter.st
            forked_main_chain == ForkedMainChain(old_main, fork, counter.id)
            main_chain == AppendedMainChain(old_main, fork)
            position == ChainsPosition(s1, fork.chain_id)
        IN  IF main_chain.max_height \notin DOMAIN main_chain.chain
            THEN [st |-> s1, err |-> "HeaderNotFound"]
            ELSE IF position < 0
            THEN [st |-> s1, err |-> "ForkIdNotFound"]
            ELSE
            LET s2 == [s1 EXCEPT !.ChainsIndex =
                                    MapPut(s1.ChainsIndex, MAIN_CHAIN_ID, main_chain)]
                s3 == SetBestBlock(s2, main_chain)
                s4 == [s3 EXCEPT !.ChainsIndex = MapDel(s3.ChainsIndex, fork.chain_id)]
                s5 == remove_blockchain(s4, position)
                s6 == [s5 EXCEPT !.ChainsIndex =
                                    MapPut(s5.ChainsIndex, forked_main_chain.chain_id,
                                           forked_main_chain)]
                s7 == insert_sorted(s6, ChainInsertedAfterSwap(main_chain, forked_main_chain))
                s8 == [s7 EXCEPT !.BlockHeaders =
                                    SetChainRefs(s7.BlockHeaders, forked_main_chain.chain,
                                                 forked_main_chain.chain_id)]
                s9 == [s8 EXCEPT !.BlockHeaders =
                                    SetChainRefs(s8.BlockHeaders, fork.chain, MAIN_CHAIN_ID)]
            IN  [st |-> s9, err |-> "None"]

(***************************************************************************)
(* Re-ordering of Chains after a chain was extended.                       *)
(***************************************************************************)
\* the height the ascent compares against after one step up
HeightAfterSwap(prev_height, current_height) == prev_height

\* PrevIsLower that also holds for equal heights
PrevIsLower_OrEqual(prev_height, current_height) == prev_height <= current_height

\* PrevIsLower that holds for every pair of heights
PrevIsLower_Always(prev_height, current_height) == TRUE

\* if prev_height < current_height: the chain ahead is lower
PrevIsLower(prev_height, current_height) == prev_height < current_height

\* the while loop; promoted tells whether swap_main_blockchain ran and
\* returned None, iterations counts the passes through the loop body
RECURSIVE ReorgLoop(_, _, _, _, _)
ReorgLoop(s, fork, current_position, current_height, iterations) ==
    IF current_position <= 0
    THEN [st |-> s, err |-> "None", promoted |-> FALSE, iterations |-> iterations]
    ELSE
    LET prev_position == current_position - 1
        prev_blockchain_id == ChainsGet(s, prev_position)
        prev_height == chainindex(s, prev_blockchain_id).max_height
    IN  IF PrevIsLower(prev_height, current_height)
        THEN IF prev_position = MAIN_CHAIN_ID
             THEN LET r == swap_main_blockchain(s, fork)
                  IN  [st |-> r.st, err |-> r.err, promoted |-> r.err = "None",
                       iterations |-> iterations + 1]
             ELSE ReorgLoop(ChainsSwap(s, prev_position, current_position), fork,
                            prev_position, HeightAfterSwap(prev_height, current_height),
                            iterations + 1)
        ELSE [st |-> s, err |-> "None", promoted |-> FALSE,
              iterations |-> iterations + 1]

\* check_and_do_reorg that takes every chain for the last one of the index
check_and_do_reorg_NoLookup(s, fork) ==
    ReorgLoop(s, fork, Cardinality(DOMAIN s.Chains), fork.max_height, 0)

\* check_and_do_reorg that starts its ascent beyond the end of the index
check_and_do_reorg_FromBeyond(s, fork) ==
    ReorgLoop(s, fork, 2 * Cardinality(DOMAIN s.Chains) + 1, fork.max_height, 0)

check_and_do_reorg(s, fork) ==
    IF fork.chain_id = MAIN_CHAIN_ID
    THEN [st |-> s, err |-> "None", promoted |-> FALSE, iterations |-> 0]
    ELSE LET fork_position == ChainsPosition(s, fork.chain_id)
         IN  IF fork_position < 0
             THEN [st |-> s, err |-> "ForkIdNotFound", promoted |-> FALSE,
                   iterations |-> 0]
             ELSE ReorgLoop(s, fork, fork_position, fork.max_height, 0)

(***************************************************************************)
(* The dispatchable functions, as functions of the storage.  Each returns  *)
(* the storage it leaves (st) and its result.                              *)
(***************************************************************************)
NoReorg == [err |-> "None", promoted |-> FALSE, fork |-> DefaultBlockChain, iterations |-> 0]

\* BestBlockExists that never finds the item
BestBlockExists_Never(s) == FALSE

\* <BestBlock>::exists(): the item has been put (no stored hash is NoHash)
BestBlockExists(s) == s.BestBlock # NoHash

initialize(s, raw, block_height) ==
    IF BestBlockExists(s)
    THEN [st |-> s, result |-> "AlreadyInitialized", reorg |-> NoReorg]
    ELSE
    LET basic_block_header == parse_block_header(raw)
        block_header_hash == basic_block_header.block_hash
        blockchain == initialize_blockchain(block_height, block_header_hash)
        block_header == [hash_prev_block |-> basic_block_header.hash_prev_block,
                         target |-> basic_block_header.target,
                         block_height |-> block_height,
                         chain_ref |-> blockchain.chain_id]
        s1 == [s EXCEPT !.BlockHeaders = MapPut(s.BlockHeaders, block_header_hash, block_header),
                        !.ChainsIndex = MapPut(s.ChainsIndex, MAIN_CHAIN_ID, blockchain)]
        s2 == ChainsInsert(s1, MAIN_CHAIN_ID, MAIN_CHAIN_ID)
        s3 == [s2 EXCEPT !.BestBlock = block_header_hash,
                         !.BestBlockHeight = block_height]
    IN  [st |-> s3, result |-> "Ok", reorg |-> NoReorg]

\* CurrentBlockHeight that skips a height
CurrentBlockHeight_Skip(prev_block_height) == prev_block_height + 2

\* prev_block_height.checked_add(1), below the overflow
CurrentBlockHeight(prev_block_height) == prev_block_height + 1

\* PrevBlockExists that accepts every hash
PrevBlockExists_Always(s, hash) == TRUE

\* <BlockHeaders>::exists(hash_prev_block)
PrevBlockExists(s, hash) == hash \in DOMAIN s.BlockHeaders

\* Both matches of the function have an identifier as first pattern
\* (prev_block_height, prev_chain_id): it binds any value, so the first arm
\* is always the one taken (extend_blockchain, then mutate + check_and_do_reorg).
store_block_header(s, raw) ==
    LET basic_block_header == parse_block_header(raw)
        block_header_hash == basic_block_header.block_hash
    IN  IF ~PrevBlockExists(s, basic_block_header.hash_prev_block)
        THEN [st |-> s, result |-> "PrevBlock", reorg |-> NoReorg]
        ELSE
        LET prev_header == blockheader(s, basic_block_header.hash_prev_block)
            prev_blockchain == chainindex(s, prev_header.chain_ref)
            prev_block_height == prev_header.block_height
        IN  IF prev_block_height >= U32_MAX
            THEN [st |-> s, result |-> "BlockHeightOverflow", reorg |-> NoReorg]
            ELSE
            LET current_block_height == CurrentBlockHeight(prev_block_height)
                extended == extend_blockchain(current_block_height, block_header_hash,
                                              prev_blockchain)
            IN  IF ~extended.ok
                THEN [st |-> s, result |-> "DuplicateBlock", reorg |-> NoReorg]
                ELSE
                LET blockchain == extended.blockchain
                    block_header == [hash_prev_block |-> basic_block_header.hash_prev_block,
                                     target |-> basic_block_header.target,
                                     block_height |-> current_block_height,
                                     chain_ref |-> blockchain.chain_id]
                    s1 == [s EXCEPT !.BlockHeaders =
                                MapPut(s.BlockHeaders, block_header_hash, block_header)]
                    s2 == ChainsIndexMutateIgnored(s1, blockchain.chain_id)
                    r == check_and_do_reorg(s2, blockchain)
                IN  [st |-> r.st, result |-> "Ok",
                     reorg |-> [err |-> r.err, promoted |-> r.promoted, fork |-> blockchain,
                                iterations |-> r.iterations]]

ErrorCodes == {"NoDataBTCRelay", "InvalidBTCRelay", "OracleOffline"}

flag_block_error(s, hash, error) ==
    IF hash \notin DOMAIN s.BlockHeaders
    THEN [st |-> s, result |-> "BlockNotFound", reorg |-> NoReorg]
    ELSE
    LET block_header == blockheader(s, hash)
        chain_id == block_header.chain_ref
    IN  IF error \notin {"NoDataBTCRelay", "InvalidBTCRelay"}
        THEN [st |-> s, result |-> "UnknownErrorcode", reorg |-> NoReorg]
        ELSE [st |-> ChainsIndexMutateIgnored(s, chain_id), result |-> "Ok",
              reorg |-> NoReorg]

\* position(..).unwrap() panics when the height is not in the list
clear_block_error(s, hash, error) ==
    IF hash \notin DOMAIN s.BlockHeaders
    THEN [st |-> s, result |-> "BlockNotFound", reorg |-> NoReorg]
    ELSE
    LET block_header == blockheader(s, hash)
        chain_id == block_header.chain_ref
        blockchain == chainindex(s, chain_id)
        flagged == IF error = "NoDataBTCRelay" THEN blockchain.no_data
                   ELSE blockchain.invalid
    IN  IF error \notin {"NoDataBTCRelay", "InvalidBTCRelay"}
        THEN [st |-> s, result |-> "UnknownErrorcode", reorg |-> NoReorg]
        ELSE IF ~\E i \in 1..Len(flagged) : flagged[i] = block_header.block_height
        THEN [st |-> s, result |-> "Panic", reorg |-> NoReorg]
        ELSE [st |-> ChainsIndexMutateIgnored(s, chain_id), result |-> "Ok",
              reorg |-> NoReorg]

(***************************************************************************)
(* Merkle proofs (crates/bitcoin/src/merkle.rs).  A hash is a tuple: a     *)
(* leaf is <<i>>, the double hash of two concatenated hashes is the pair   *)
(* of them, so that it is injective.  Vec indices are 0-based in the code  *)
(* and 1-based here.                                                       *)
(***************************************************************************)
MAX_BLOCK_WEIGHT == 4000000
WITNESS_SCALE_FACTOR == 4
MIN_TRANSACTION_WEIGHT == WITNESS_SCALE_FACTOR * 60
MAX_TRANSACTIONS_IN_PROOF == MAX_BLOCK_WEIGHT \div MIN_TRANSACTION_WEIGHT

hash256_merkle_step(left, right) == <<left, right>>

NoProof == [status |-> "none", transactions_count |-> 0, hashes |-> <<>>, flag_bits |-> <<>>]

MerkleProof(transactions_count, hashes, flag_bits) ==
    [status |-> "proof", transactions_count |-> transactions_count,
     hashes |-> hashes, flag_bits |-> flag_bits]

RECURSIVE Pow2(_)
Pow2(n) == IF n = 0 THEN 1 ELSE 2 * Pow2(n - 1)

\* (transactions_count + (1 << height) - 1) >> height
\* compute_tree_width without the rounding up
compute_tree_width_Floor(transactions_count, height) ==
    transactions_count \div Pow2(height)

compute_tree_width(transactions_count, height) ==
    (transactions_count + Pow2(height) - 1) \div Pow2(height)

RECURSIVE TreeHeightFrom(_, _)
TreeHeightFrom(transactions_count, height) ==
    IF compute_tree_width(transactions_count, height) > 1
    THEN TreeHeightFrom(transactions_count, height + 1)
    ELSE height

compute_tree_height(transactions_count) == TreeHeightFrom(transactions_count, 0)

\* merkle_position is -1 for None, hash_position is 0 for None; flagged counts
\* the height-0 nodes met with flag bit 1 (it is not a field of the struct)
NewTraversal ==
    [bits_used |-> 0, hashes_used |-> 0, merkle_position |-> -1, hash_position |-> 0,
     flagged |-> 0]

\* whether flag_bits[bits_used] is inside the vector
FlagBitInBounds(p, traversal) == traversal.bits_used < Len(p.flag_bits)

\* whether the node at (height, pos) has a right child of its own
RightChildExists_Always(p, height, pos) == TRUE

RightChildExists(p, height, pos) ==
    pos * 2 + 1 < compute_tree_width(p.transactions_count, height - 1)

\* res is "Ok", "MalformedProof", or "Panic" for an index out of bounds
RECURSIVE traverse_and_extract(_, _, _, _)
traverse_and_extract(p, height, pos, traversal) ==
    IF ~FlagBitInBounds(p, traversal)
    THEN [res |-> "Panic", hash |-> <<>>, traversal |-> traversal]
    ELSE
    LET parent_of_hash == p.flag_bits[traversal.bits_used + 1]
        t1 == [traversal EXCEPT !.bits_used = @ + 1]
    IN  IF height = 0 \/ ~parent_of_hash
        THEN IF t1.hashes_used >= Len(p.hashes)
             THEN [res |-> "MalformedProof", hash |-> <<>>, traversal |-> t1]
             ELSE LET hash == p.hashes[t1.hashes_used + 1]
                      t2 == IF height = 0 /\ parent_of_hash
                            THEN [t1 EXCEPT !.merkle_position = pos,
                                            !.hash_position = t1.hashes_used + 1,
                                            !.flagged = @ + 1]
                            ELSE t1
                  IN  [res |-> "Ok", hash |-> hash,
                       traversal |-> [t2 EXCEPT !.hashes_used = @ + 1]]
        ELSE LET left == traverse_and_extract(p, height - 1, pos * 2, t1)
             IN  IF left.res # "Ok" THEN left
                 ELSE LET right ==
                              IF RightChildExists(p, height, pos)
                              THEN traverse_and_extract(p, height - 1, pos * 2 + 1,
                                                        left.traversal)
                              ELSE left
                      IN  IF right.res # "Ok" THEN right
                          ELSE [res |-> "Ok",
                                hash |-> hash256_merkle_step(left.hash, right.hash),
                                traversal |-> right.traversal]

NoResult ==
    [result |-> "none", extracted_root |-> <<>>, transaction_hash |-> <<>>,
     transaction_position |-> 0, traversal |-> NewTraversal]

ProofError(result, traversal) ==
    [NoResult EXCEPT !.result = result, !.traversal = traversal]

\* the three checks made before the traversal
ProofIsWellFormed_NoBitCheck(p) ==
    /\ p.transactions_count # 0
    /\ p.transactions_count <= MAX_TRANSACTIONS_IN_PROOF

ProofIsWellFormed(p) ==
    /\ p.transactions_count # 0
    /\ p.transactions_count <= MAX_TRANSACTIONS_IN_PROOF
    /\ Len(p.flag_bits) >= Len(p.hashes)

\* the two checks made after the traversal
AllInputUsed_HashesOnly(p, traversal) == traversal.hashes_used = Len(p.hashes)

AllInputUsed(p, traversal) ==
    /\ traversal.hashes_used = Len(p.hashes)
    /\ (traversal.bits_used + 7) \div 8 = (Len(p.flag_bits) + 7) \div 8

verify_proof(p) ==
    IF ~ProofIsWellFormed(p)
    THEN ProofError("MalformedProof", NewTraversal)
    ELSE
    LET r == traverse_and_extract(p, compute_tree_height(p.transactions_count), 0,
                                  NewTraversal)
    IN  IF r.res # "Ok" THEN ProofError(r.res, r.traversal)
        ELSE IF r.traversal.merkle_position < 0
        THEN ProofError("InvalidProof", r.traversal)
        ELSE IF ~AllInputUsed(p, r.traversal)
        THEN ProofError("MalformedProof", r.traversal)
        ELSE [result |-> "Ok", extracted_root |-> r.hash,
              transaction_hash |-> p.hashes[r.traversal.hash_position],
              transaction_position |-> r.traversal.merkle_position,
              traversal |-> r.traversal]

\* parser::parse_varint for a count below 0xfd, which is the byte itself;
\* ok is FALSE when the slice has no byte to read
parse_varint(slice) ==
    IF Len(slice) = 0
    THEN [ok |-> FALSE, bytes_consumed |-> 0, value |-> 0]
    ELSE [ok |-> TRUE, bytes_consumed |-> 1, value |-> slice[1]]

\* &buf[from..to], 0-based, to excluded; defined when to <= Len(buf)
Slice(buf, from, to) == [i \in 1..(to - from) |-> buf[from + i]]

\* H256Le::from_bytes_le: the hash is its 32 bytes
H256Le_from_bytes_le(raw_hash) == raw_hash

\* u32::from_le_bytes
u32_from_le_bytes(b) == b[1] + 256 * b[2] + 65536 * b[3] + 16777216 * b[4]

\* the eight bits of a byte, lowest first: (byte & (1 << i)) != 0
ByteBits(byte) == [i \in 1..8 |-> (byte \div Pow2(i - 1)) % 2 = 1]

RECURSIVE ParseHashes(_, _, _)
ParseHashes(buf, current_index, hashes_count) ==
    IF hashes_count = 0
    THEN [ok |-> TRUE, hashes |-> <<>>, current_index |-> current_index]
    ELSE IF current_index + 32 > Len(buf)
    THEN [ok |-> FALSE, hashes |-> <<>>, current_index |-> current_index]
    ELSE LET rest == ParseHashes(buf, current_index + 32, hashes_count - 1)
         IN  [rest EXCEPT !.hashes =
                  <<H256Le_from_bytes_le(Slice(buf, current_index, current_index + 32))>>
                      \o @]

RECURSIVE ParseFlagBits(_, _, _)
ParseFlagBits(buf, current_index, flag_bits_count) ==
    IF flag_bits_count = 0
    THEN [ok |-> TRUE, flag_bits |-> <<>>]
    ELSE IF current_index >= Len(buf)
    THEN [ok |-> FALSE, flag_bits |-> <<>>]
    ELSE LET rest == ParseFlagBits(buf, current_index + 1, flag_bits_count - 1)
         IN  [rest EXCEPT !.flag_bits = ByteBits(buf[current_index + 1]) \o @]

ParsePanic == [NoProof EXCEPT !.status = "panic"]

\* MerkleProof::parse returns a MerkleProof, not a Result: an index or a slice
\* beyond the buffer panics
parse(buf) ==
    IF Len(buf) < 87
    THEN ParsePanic
    ELSE
    LET transactions_count == Slice(buf, 80, 84)
        hc == parse_varint(Slice(buf, 84, 87))
        hs == ParseHashes(buf, hc.bytes_consumed + 84, hc.value)
    IN  IF ~hs.ok THEN ParsePanic
        ELSE
        LET last_byte == IF hs.current_index + 3 < Len(buf)
                         THEN hs.current_index + 3 ELSE Len(buf)
            fc == parse_varint(Slice(buf, hs.current_index, last_byte))
            fb == ParseFlagBits(buf, hs.current_index + fc.bytes_consumed, fc.value)
        IN  IF ~fc.ok \/ ~fb.ok THEN ParsePanic
            ELSE MerkleProof(u32_from_le_bytes(transactions_count), hs.hashes,
                             fb.flag_bits)

\* the body is ensure_signed and Ok(()): no argument is read
verify_transaction_inclusion(s, tx_id, tx_block_height, tx_index, raw_proof, confirmations) ==
    [st |-> s, result |-> "Ok", reorg |-> NoReorg]

(***************************************************************************)
(* The state machine.                                                      *)
(***************************************************************************)
\* a hash no header has: block hashes are never multiples of NonceBase
UnknownHash == NonceBase

NoCall ==
    [op |-> "none", hash |-> NoHash, prev |-> NoHash, target |-> 0, height |-> 0,
     confirmations |-> 0, error |-> "none", result |-> "none", reorg |-> NoReorg]

Apply(s) ==
    /\ BlockHeaders' = s.BlockHeaders
    /\ Chains' = s.Chains
    /\ ChainsOrder' = s.ChainsOrder
    /\ ChainsIndex' = s.ChainsIndex
    /\ BestBlock' = s.BestBlock
    /\ BestBlockHeight' = s.BestBlockHeight
    /\ ChainCounter' = s.ChainCounter

Dispatch(r, call) ==
    /\ calls < MaxCalls
    /\ Apply(r.st)
    /\ last' = [call EXCEPT !.result = r.result, !.reorg = r.reorg]
    /\ pre' = Storage
    /\ calls' = calls + 1
    /\ UNCHANGED merkleVars

Initialize ==
    \E nonce \in Nonces, block_height \in 0..MaxInitHeight :
        LET raw == [hash_prev_block |-> NoHash, nonce |-> nonce]
        IN  Dispatch(initialize(Storage, raw, block_height),
                     [NoCall EXCEPT !.op = "initialize",
                                    !.hash = parse_block_header(raw).block_hash,
                                    !.target = parse_block_header(raw).target,
                                    !.height = block_height])

StoreBlockHeader ==
    \E prev \in (DOMAIN BlockHeaders) \cup {UnknownHash}, nonce \in Nonces :
        LET raw == [hash_prev_block |-> prev, nonce |-> nonce]
        IN  Dispatch(store_block_header(Storage, raw),
                     [NoCall EXCEPT !.op = "store_block_header",
                                    !.hash = parse_block_header(raw).block_hash,
                                    !.target = parse_block_header(raw).target,
                                    !.prev = prev])

FlagBlockError ==
    \E hash \in (DOMAIN BlockHeaders) \cup {UnknownHash}, error \in ErrorCodes :
        Dispatch(flag_block_error(Storage, hash, error),
                 [NoCall EXCEPT !.op = "flag_block_error", !.hash = hash, !.error = error])

ClearBlockError ==
    \E hash \in (DOMAIN BlockHeaders) \cup {UnknownHash}, error \in ErrorCodes :
        Dispatch(clear_block_error(Storage, hash, error),
                 [NoCall EXCEPT !.op = "clear_block_error", !.hash = hash, !.error = error])

\* the raw proofs and confirmation counts submitted for inclusion checks
InclusionProofs == {<<>>, <<1>>}

RequiredConfirmations == {1, 6}

VerifyTransactionInclusion ==
    \E tx_block_height \in 0..MaxInitHeight, raw_merkle_proof \in InclusionProofs,
       confirmations \in RequiredConfirmations :
        LET r == verify_transaction_inclusion(Storage, NoHash, tx_block_height, 0,
                                              raw_merkle_proof, confirmations)
        IN  /\ calls < MaxCalls
            /\ Apply(r.st)
            /\ last' = [NoCall EXCEPT !.op = "verify_transaction_inclusion",
                                      !.height = tx_block_height,
                                      !.confirmations = confirmations,
                                      !.result = r.result]
            /\ pre' = Storage
            /\ calls' = calls + 1
            /\ merkle_proof' = raw_merkle_proof
            /\ UNCHANGED <<proof, proof_result>>

InitWith(s) ==
    /\ BlockHeaders = s.BlockHeaders
    /\ Chains = s.Chains
    /\ ChainsOrder = s.ChainsOrder
    /\ ChainsIndex = s.ChainsIndex
    /\ BestBlock = s.BestBlock
    /\ BestBlockHeight = s.BestBlockHeight
    /\ ChainCounter = s.ChainCounter
    /\ last = NoCall
    /\ pre = s
    /\ calls = 0
    /\ merkle_proof = <<>>
    /\ proof = NoProof
    /\ proof_result = NoResult

\* the storage of a freshly built runtime: every item absent
Init == InitWith(EmptyStorage)

Next ==
    \/ Initialize
    \/ StoreBlockHeader
    \/ FlagBlockError
    \/ ClearBlockError
    \/ VerifyTransactionInclusion

Spec == Init /\ [][Next]_vars

(***************************************************************************)
(* Storages with forks, built the way the unit tests build them            *)
(* (store_blockchain_and_random_headers): a main chain from height 0 and   *)
(* fork chains that branch off it, each with its headers stored, its       *)
(* BlockChain in ChainsIndex and its id in Chains, positions filled in     *)
(* ascending order and sorted by descending max_height.                    *)
(***************************************************************************)
RECURSIVE MainHash(_)
MainHash(h) == IF h = 0 THEN block_hash(NoHash, 1) ELSE block_hash(MainHash(h - 1), 1)

\* the fork with this id branches off the main block at start - 1
RECURSIVE ForkHash(_, _, _)
ForkHash(id, start, h) ==
    IF h = start THEN block_hash(MainHash(start - 1), id)
    ELSE block_hash(ForkHash(id, start, h - 1), 1)

ChainHash(id, start, h) == IF id = MAIN_CHAIN_ID THEN MainHash(h) ELSE ForkHash(id, start, h)

ChainPrev(id, start, h) ==
    IF id = MAIN_CHAIN_ID
    THEN IF h = 0 THEN NoHash ELSE MainHash(h - 1)
    ELSE IF h = start THEN MainHash(start - 1) ELSE ForkHash(id, start, h - 1)

\* the nonce of the block: the fork's id on its first block, else 1
ChainNonce(id, start, h) == IF id # MAIN_CHAIN_ID /\ h = start THEN id ELSE 1

\* the BlockChain that extend_blockchain builds over start..max
BuiltChain(id, start, max) ==
    [chain_id |-> id, chain |-> [h \in start..max |-> ChainHash(id, start, h)],
     start_height |-> start, max_height |-> max, no_data |-> <<>>, invalid |-> <<>>]

\* shape[p] = <<start, max>> of the fork at position p, whose id is p + 1
\* (ids are not positions: an earlier chain 1 is gone)
BuiltStorage(main_max, shape) ==
    LET k == Len(shape)
        order == [p \in 1..k |-> p + 1]
        ids == {MAIN_CHAIN_ID} \cup {order[p] : p \in 1..k}
        startOf(id) == IF id = MAIN_CHAIN_ID THEN 0 ELSE shape[id - 1][1]
        maxOf(id) == IF id = MAIN_CHAIN_ID THEN main_max ELSE shape[id - 1][2]
        blocks == {<<id, h>> : id \in ids, h \in 0..main_max}
        stored == {b \in blocks : startOf(b[1]) <= b[2] /\ b[2] <= maxOf(b[1])}
        hashes == {ChainHash(b[1], startOf(b[1]), b[2]) : b \in stored}
        blockOf(x) == CHOOSE b \in stored : ChainHash(b[1], startOf(b[1]), b[2]) = x
    IN  [BlockHeaders |->
            [x \in hashes |->
                LET b == blockOf(x)
                IN  [hash_prev_block |-> ChainPrev(b[1], startOf(b[1]), b[2]),
                     target |-> header_target(ChainNonce(b[1], startOf(b[1]), b[2])),
                     block_height |-> b[2], chain_ref |-> b[1]]],
         Chains |-> [p \in 0..k |-> IF p = 0 THEN MAIN_CHAIN_ID ELSE order[p]],
         ChainsOrder |-> [i \in 1..(k + 1) |-> k + 1 - i],
         ChainsIndex |-> [id \in ids |-> BuiltChain(id, startOf(id), maxOf(id))],
         BestBlock |-> MainHash(main_max),
         BestBlockHeight |-> main_max,
         ChainCounter |-> k + 1]

\* every main height 1..MaxMain, every number of forks up to MaxForks, every
\* start..max inside the main chain's heights, sorted by descending max
BuiltStorages ==
    {BuiltStorage(c[1], c[2]) :
        c \in {c \in UNION {
                    UNION {
                        {<<m, sh>> :
                            sh \in [1..k -> {<<a, b>> \in (1..m) \X (1..m) : a <= b}]}
                        : k \in 0..MaxForks}
                    : m \in 1..MaxMain} :
                \A p, q \in 1..Len(c[2]) : p < q => c[2][p][2] >= c[2][q][2]}}

InitForks == \E s \in BuiltStorages : InitWith(s)

StoreOnBuiltStorage == calls < MaxStores /\ StoreBlockHeader

NextForks == StoreOnBuiltStorage

SpecForks == InitForks /\ [][NextForks]_vars

\* calls dispatched on a built storage when a header is submitted again
\* after a promotion
MaxLongStores == 3

StoreOnBuiltStorageLong == calls < MaxLongStores /\ StoreBlockHeader

NextLong == StoreOnBuiltStorageLong

SpecLong == InitForks /\ [][NextLong]_vars

(***************************************************************************)
(* The functions behind store_block_header, called on their own the way    *)
(* the unit tests call them: on a storage built with forks, with a chain   *)
(* that is stored, a stored chain grown by one block (what                 *)
(* store_block_header passes on), or a chain without mapping built by      *)
(* get_empty_block_chain_from_chain_id_and_height.                         *)
(***************************************************************************)
\* direct calls in one behaviour
MaxUnitCalls == 1

\* a chain id that is in neither Chains nor ChainsIndex
UnknownChainId(s) == s.ChainCounter + 1

EmptyBlockChain(chain_id, start_height, block_height) ==
    [chain_id |-> chain_id, chain |-> EmptyMap, start_height |-> start_height,
     max_height |-> block_height, no_data |-> <<>>, invalid |-> <<>>]

\* the chain store_block_header hands on after a header on the chain's tip
Grown(c) ==
    extend_blockchain(c.max_height + 1, block_hash(c.chain[c.max_height], 1), c).blockchain

\* the stored chains that have a tip to build on
TippedChains(s) ==
    {c \in {s.ChainsIndex[id] : id \in DOMAIN s.ChainsIndex} :
        c.max_height \in DOMAIN c.chain}

ChainArgs(s) ==
    {s.ChainsIndex[id] : id \in DOMAIN s.ChainsIndex}
    \cup {Grown(c) : c \in TippedChains(s)}
    \cup {Grown(Grown(c)) : c \in TippedChains(s)}
    \cup {EmptyBlockChain(id, 1, h) :
              id \in (DOMAIN s.ChainsIndex) \cup {UnknownChainId(s)},
              h \in 1..(MaxMain + 1)}

UnitDispatch(st, op, err, promoted, arg, iterations) ==
    /\ calls < MaxUnitCalls
    /\ Apply(st)
    /\ last' = [NoCall EXCEPT !.op = op, !.result = err,
                              !.reorg = [err |-> err, promoted |-> promoted, fork |-> arg,
                                         iterations |-> iterations]]
    /\ pre' = Storage
    /\ calls' = calls + 1
    /\ UNCHANGED merkleVars

CallSwapMainBlockchain ==
    \E fork \in ChainArgs(Storage) :
        LET r == swap_main_blockchain(Storage, fork)
        IN  UnitDispatch(r.st, "swap_main_blockchain", r.err, r.err = "None", fork, 0)

CallCheckAndDoReorg ==
    \E fork \in ChainArgs(Storage) :
        LET r == check_and_do_reorg(Storage, fork)
        IN  UnitDispatch(r.st, "check_and_do_reorg", r.err, r.promoted, fork, r.iterations)

CallInsertSorted ==
    \E h \in 0..(MaxMain + 1) :
        LET blockchain == EmptyBlockChain(UnknownChainId(Storage), 1, h)
        IN  UnitDispatch(insert_sorted(Storage, blockchain), "insert_sorted", "None",
                         FALSE, blockchain, 0)

NextCalls ==
    \/ CallSwapMainBlockchain
    \/ CallCheckAndDoReorg
    \/ CallInsertSorted

SpecCalls == InitForks /\ [][NextCalls]_vars

(***************************************************************************)
(* Storages whose chains carry error flags.  flag_block_error pushes the   *)
(* height of the flagged block onto the chain's no_data or invalid vector, *)
(* in the order of the calls; the storages below hold the chains with the  *)
(* vectors those pushes build, for every order of up to MaxFlags flags.    *)
(***************************************************************************)
\* flags recorded on one chain, per kind
MaxFlags == 2

\* blockchain.no_data.push(h) / blockchain.invalid.push(h)
PushFlag(blockchain, error, h) ==
    IF error = "NoDataBTCRelay"
    THEN [blockchain EXCEPT !.no_data = Append(@, h)]
    ELSE [blockchain EXCEPT !.invalid = Append(@, h)]

RECURSIVE PushFlags(_, _, _)
PushFlags(blockchain, error, hs) ==
    IF hs = <<>> THEN blockchain
    ELSE PushFlags(PushFlag(blockchain, error, Head(hs)), error, Tail(hs))

\* the orders in which up to MaxFlags distinct heights of the chain are flagged
FlagOrders(blockchain) ==
    {hs \in UNION {[1..n -> DOMAIN blockchain.chain] : n \in 0..MaxFlags} :
        \A i, j \in 1..Len(hs) : i # j => hs[i] # hs[j]}

FlaggedStorages ==
    UNION {
        UNION {
            {[s EXCEPT !.ChainsIndex =
                 [id \in DOMAIN s.ChainsIndex |->
                     IF id = MAIN_CHAIN_ID
                     THEN PushFlags(PushFlags(s.ChainsIndex[id], "NoDataBTCRelay", nd),
                                    "InvalidBTCRelay", inv)
                     ELSE PushFlags(s.ChainsIndex[id], "NoDataBTCRelay",
                                    IF tip THEN <<s.ChainsIndex[id].max_height>>
                                    ELSE <<>>)]]
             : tip \in BOOLEAN, inv \in {<<>>, nd}}
            : nd \in FlagOrders(s.ChainsIndex[MAIN_CHAIN_ID])}
        : s \in BuiltStorages}

InitFlags == \E s \in FlaggedStorages : InitWith(s)

NextFlags ==
    \/ CallSwapMainBlockchain
    \/ CallCheckAndDoReorg

SpecFlags == InitFlags /\ [][NextFlags]_vars

(***************************************************************************)
(* Merkle proofs as inputs: proofs drawn from small sets, the proofs the   *)
(* partial-merkle-tree construction of the Bitcoin client builds for one   *)
(* transaction, and raw byte buffers for MerkleProof::parse.               *)
(***************************************************************************)
\* highest transactions_count below the limit, and of a constructed proof
MaxTransactions == 9
\* longest hashes list of a drawn proof
MaxHashes == 3
\* longest flag_bits list of a drawn proof, before padding to whole bytes
MaxFlagBits == 4
\* longest raw buffer
MaxProofBytes == 122
\* highest hash count and flag byte count a raw buffer declares
MaxDeclared == 2

Leaf(i) == <<i>>

PadTo(bits, n) == bits \o [k \in 1..(n - Len(bits)) |-> FALSE]

PadToByte(bits) == PadTo(bits, 8 * ((Len(bits) + 7) \div 8))

\* the hash of the node at (height, pos) of the tree over n leaves, the last
\* node of an odd-width level paired with itself
RECURSIVE CalcHash(_, _, _)
CalcHash(n, height, pos) ==
    IF height = 0 THEN Leaf(pos)
    ELSE LET left == CalcHash(n, height - 1, pos * 2)
             right == IF pos * 2 + 1 < compute_tree_width(n, height - 1)
                      THEN CalcHash(n, height - 1, pos * 2 + 1)
                      ELSE left
         IN  hash256_merkle_step(left, right)

MerkleRoot(n) == CalcHash(n, compute_tree_height(n), 0)

\* TraverseAndBuild of the Bitcoin client for the single matched leaf i
RECURSIVE TraverseAndBuild(_, _, _, _)
TraverseAndBuild(n, i, height, pos) ==
    LET parent_of_match == pos * Pow2(height) <= i /\ i < (pos + 1) * Pow2(height)
    IN  IF height = 0 \/ ~parent_of_match
        THEN [bits |-> <<parent_of_match>>, hashes |-> <<CalcHash(n, height, pos)>>]
        ELSE LET left == TraverseAndBuild(n, i, height - 1, pos * 2)
                 right == IF pos * 2 + 1 < compute_tree_width(n, height - 1)
                          THEN TraverseAndBuild(n, i, height - 1, pos * 2 + 1)
                          ELSE [bits |-> <<>>, hashes |-> <<>>]
             IN  [bits |-> <<TRUE>> \o left.bits \o right.bits,
                  hashes |-> left.hashes \o right.hashes]

StandardProof(n, i) ==
    LET b == TraverseAndBuild(n, i, compute_tree_height(n), 0)
    IN  MerkleProof(n, b.hashes, PadToByte(b.bits))

StandardProofs ==
    UNION {{StandardProof(n, i) : i \in 0..(n - 1)} : n \in 1..MaxTransactions}

DrawnProofs ==
    LET counts == (0..MaxTransactions)
                      \cup {MAX_TRANSACTIONS_IN_PROOF, MAX_TRANSACTIONS_IN_PROOF + 1}
        hashLists == UNION {[1..k -> {Leaf(0), Leaf(1)}] : k \in 0..MaxHashes}
        short == UNION {[1..k -> BOOLEAN] : k \in 0..MaxFlagBits}
        flagLists == short \cup {PadTo(f, 8) : f \in short} \cup {PadTo(f, 16) : f \in short}
    IN  {MerkleProof(n, hs, fb) : n \in counts, hs \in hashLists, fb \in flagLists}

\* a buffer of len bytes: transactions_count 2, the hash count at byte 84,
\* the flag byte count after the hashes, flag bytes 3, everything else 0
RawProof(len, hashes_count, flag_bits_count) ==
    [i \in 1..len |->
        IF i = 81 THEN 2
        ELSE IF i = 85 THEN hashes_count
        ELSE IF i = 86 + 32 * hashes_count THEN flag_bits_count
        ELSE IF i > 86 + 32 * hashes_count THEN 3
        ELSE 0]

RawProofs ==
    {RawProof(len, hc, fc) : len \in 0..MaxProofBytes, hc \in 0..MaxDeclared,
                             fc \in 0..MaxDeclared}

InitMerkle ==
    /\ BlockHeaders = EmptyStorage.BlockHeaders
    /\ Chains = EmptyStorage.Chains
    /\ ChainsOrder = EmptyStorage.ChainsOrder
    /\ ChainsIndex = EmptyStorage.ChainsIndex
    /\ BestBlock = EmptyStorage.BestBlock
    /\ BestBlockHeight = EmptyStorage.BestBlockHeight
    /\ ChainCounter = EmptyStorage.ChainCounter
    /\ last = NoCall
    /\ pre = EmptyStorage
    /\ calls = 0
    /\ proof_result = NoResult
    /\ \/ merkle_proof = <<>> /\ proof \in StandardProofs \cup DrawnProofs
       \/ merkle_proof \in RawProofs /\ proof = NoProof

Parse ==
    /\ proof.status = "none"
    /\ proof' = parse(merkle_proof)
    /\ UNCHANGED <<merkle_proof, proof_result>>
    /\ UNCHANGED relayVars

VerifyProof ==
    /\ proof.status = "proof"
    /\ proof_result.result = "none"
    /\ proof_result' = verify_proof(proof)
    /\ UNCHANGED <<merkle_proof, proof>>
    /\ UNCHANGED relayVars

NextMerkle ==
    \/ Parse
    \/ VerifyProof

SpecMerkle == InitMerkle /\ [][NextMerkle]_vars

(***************************************************************************)
(* The shape of the tree: compute_tree_height and the widths it walks      *)
(* through, for every transaction count a proof may carry.                 *)
(***************************************************************************)
InitTree ==
    /\ BlockHeaders = EmptyStorage.BlockHeaders
    /\ Chains = EmptyStorage.Chains
    /\ ChainsOrder = EmptyStorage.ChainsOrder
    /\ ChainsIndex = EmptyStorage.ChainsIndex
    /\ BestBlock = EmptyStorage.BestBlock
    /\ BestBlockHeight = EmptyStorage.BestBlockHeight
    /\ ChainCounter = EmptyStorage.ChainCounter
    /\ last = NoCall
    /\ pre = EmptyStorage
    /\ calls = 0
    /\ proof_result = NoResult
    /\ merkle_proof = <<>>
    /\ \E n \in 1..MAX_TRANSACTIONS_IN_PROOF : proof = MerkleProof(n, <<>>, <<>>)

ComputeTreeHeight ==
    /\ proof_result.result = "none"
    /\ LET height == compute_tree_height(proof.transactions_count)
       IN  proof_result' =
               [result |-> "tree", height |-> height,
                widths |-> [h \in 0..height |->
                               compute_tree_width(proof.transactions_count, h)]]
    /\ UNCHANGED <<merkle_proof, proof>>
    /\ UNCHANGED relayVars

NextTree == ComputeTreeHeight

SpecTree == InitTree /\ [][NextTree]_vars

(***************************************************************************)
(* Properties.  `last` and `pre` describe the call that led to the state:  *)
(* a property of the form  Case => Post  is a postcondition of that call.  *)
(***************************************************************************)
Range(f) == {f[x] : x \in DOMAIN f}

\* the last call was a store_block_header that returned Ok
Stored == last.op = "store_block_header" /\ last.result = "Ok"

\* ... and its check_and_do_reorg ran swap_main_blockchain to completion
Promoted == Stored /\ last.reorg.promoted

\* the chain handed to check_and_do_reorg: the parent's chain with the new header
LastFork == last.reorg.fork

\* the main chain before the call
OldMain == chainindex(pre, MAIN_CHAIN_ID)

\* the last call extended a fork beyond the main chain's height
Overtakes ==
    /\ Stored
    /\ LastFork.chain_id # MAIN_CHAIN_ID
    /\ LastFork.max_height > OldMain.max_height

\* C1: when a fork comes to have max_height strictly greater than the main
\* chain's, it is promoted: afterwards ChainsIndex[0] has chain_id 0, the old
\* start_height, max_height = the fork's, and as mapping the old main mapping
\* below the fork's start_height together with the fork's mapping.
C1_OvertakingForkIsPromoted ==
    Overtakes =>
        /\ MAIN_CHAIN_ID \in DOMAIN ChainsIndex
        /\ ChainsIndex[MAIN_CHAIN_ID].chain_id = MAIN_CHAIN_ID
        /\ ChainsIndex[MAIN_CHAIN_ID].start_height = OldMain.start_height
        /\ ChainsIndex[MAIN_CHAIN_ID].max_height = LastFork.max_height
        /\ ChainsIndex[MAIN_CHAIN_ID].chain =
               MapAppend(MapBelow(OldMain.chain, LastFork.start_height), LastFork.chain)

\* C2: after every completed operation Chains, read by ascending position, is
\* sorted by descending max_height.
C2_ChainsSortedByHeight ==
    \A i, j \in DOMAIN Chains :
        i < j => chainindex(Storage, Chains[i]).max_height
                     >= chainindex(Storage, Chains[j]).max_height

\* C3: after initialize, position 0 of Chains holds MAIN_CHAIN_ID and no other
\* position does.
C3_MainChainOnlyAtPositionZero ==
    BestBlock # NoHash =>
        /\ 0 \in DOMAIN Chains
        /\ Chains[0] = MAIN_CHAIN_ID
        /\ \A p \in DOMAIN Chains : p # 0 => Chains[p] # MAIN_CHAIN_ID

\* C4: every chain stored in ChainsIndex has exactly the heights
\* start_height..max_height as keys of its mapping.
C4_ChainsHaveNoGaps ==
    \A id \in DOMAIN ChainsIndex :
        DOMAIN ChainsIndex[id].chain =
            ChainsIndex[id].start_height .. ChainsIndex[id].max_height

\* the chains a call added to ChainsIndex that hold the displaced part of the
\* old main chain
DisplacedIds ==
    {id \in (DOMAIN ChainsIndex) \ (DOMAIN pre.ChainsIndex) :
        /\ id \notin {MAIN_CHAIN_ID, LastFork.chain_id}
        /\ ChainsIndex[id].chain_id = id
        /\ ChainsIndex[id].start_height = LastFork.start_height
        /\ ChainsIndex[id].max_height = OldMain.max_height
        /\ ChainsIndex[id].chain = MapSplitOff(OldMain.chain, LastFork.start_height)}

\* C5: after a successful promotion of fork f the displaced part of the old
\* main chain is stored under a fresh id (not 0, not f's id) with start_height
\* = f.start_height, max_height = the old main max_height and exactly the old
\* main entries at heights >= f.start_height.
C5_DisplacedSuffixStored == Promoted => DisplacedIds # {}

C5_Witness ==
    /\ Promoted
    /\ \E id \in DisplacedIds : Cardinality(DOMAIN ChainsIndex[id].chain) >= 2

\* C6: after a successful promotion of fork f every header of f's mapping has
\* chain_ref 0, every header of the displaced suffix has the displaced chain's
\* id as chain_ref, and every main-chain header below f.start_height still
\* has chain_ref 0.
C6_HeadersReparented ==
    Promoted =>
        \E d \in DisplacedIds :
            /\ \A h \in DOMAIN LastFork.chain :
                   blockheader(Storage, LastFork.chain[h]).chain_ref = MAIN_CHAIN_ID
            /\ \A h \in DOMAIN OldMain.chain :
                   blockheader(Storage, OldMain.chain[h]).chain_ref =
                       IF h >= LastFork.start_height THEN d ELSE MAIN_CHAIN_ID

C6_Witness ==
    /\ Promoted
    /\ \E x \in DOMAIN pre.BlockHeaders :
           pre.BlockHeaders[x].chain_ref = MAIN_CHAIN_ID
           /\ BlockHeaders[x].chain_ref # MAIN_CHAIN_ID
    /\ \E x \in DOMAIN pre.BlockHeaders :
           pre.BlockHeaders[x].chain_ref # MAIN_CHAIN_ID
           /\ BlockHeaders[x].chain_ref = MAIN_CHAIN_ID
    /\ \E x \in DOMAIN pre.BlockHeaders :
           pre.BlockHeaders[x].chain_ref = MAIN_CHAIN_ID
           /\ pre.BlockHeaders[x].block_height > 0
           /\ BlockHeaders[x].chain_ref = MAIN_CHAIN_ID

\* C7: after a successful promotion of fork f, BestBlockHeight = f.max_height
\* and BestBlock = the hash f's mapping holds at f.max_height.
C7_BestBlockIsForkTip ==
    Promoted =>
        /\ BestBlockHeight = LastFork.max_height
        /\ LastFork.max_height \in DOMAIN LastFork.chain
        /\ BestBlock = LastFork.chain[LastFork.max_height]

C7_Witness ==
    /\ Promoted
    /\ BestBlock # pre.BestBlock
    /\ BestBlockHeight = pre.BestBlockHeight + 1

\* C8: after a successful promotion of fork f, f's id is neither a key of
\* ChainsIndex nor a value of Chains, and the displaced chain's fresh id
\* appears exactly once in Chains, at a position >= 1.
C8_ForkRemovedDisplacedInserted ==
    Promoted =>
        /\ LastFork.chain_id \notin DOMAIN ChainsIndex
        /\ LastFork.chain_id \notin Range(Chains)
        /\ \E d \in DisplacedIds :
               /\ Cardinality({p \in DOMAIN Chains : Chains[p] = d}) = 1
               /\ \A p \in DOMAIN Chains : Chains[p] = d => p >= 1

\* the parent of the submitted header and the parent's chain, before the call
LastParent == blockheader(pre, last.prev)
LastParentChain == chainindex(pre, LastParent.chain_ref)

\* the last call submitted a new header whose parent is stored
SubmittedOnStoredParent ==
    /\ last.op = "store_block_header"
    /\ last.prev \in DOMAIN pre.BlockHeaders
    /\ last.hash \notin DOMAIN pre.BlockHeaders
    /\ LastParent.chain_ref \in DOMAIN pre.ChainsIndex

ParentIsTip ==
    /\ LastParentChain.max_height \in DOMAIN LastParentChain.chain
    /\ LastParentChain.chain[LastParentChain.max_height] = last.prev

\* C9: store_block_header for a new header whose parent is stored but is not
\* the tip of the parent's chain succeeds and starts a fork: a new chain with a
\* fresh non-zero id, start_height = max_height = parent height + 1 and the
\* single entry height -> hash is stored, its id is added to Chains, the
\* header is stored with that chain_ref, and the parent's chain is unchanged.
C9_NonTipParentStartsFork ==
    (SubmittedOnStoredParent /\ ~ParentIsTip) =>
        /\ last.result = "Ok"
        /\ \E id \in (DOMAIN ChainsIndex) \ (DOMAIN pre.ChainsIndex) :
               /\ id # MAIN_CHAIN_ID
               /\ ChainsIndex[id] =
                      generate_blockchain(id, LastParent.block_height + 1, last.hash)
               /\ id \in Range(Chains)
               /\ id \notin Range(pre.Chains)
               /\ last.hash \in DOMAIN BlockHeaders
               /\ BlockHeaders[last.hash].chain_ref = id
        /\ chainindex(Storage, LastParent.chain_ref).chain = LastParentChain.chain

\* C10: store_block_header for a new header whose parent is the tip of chain c
\* succeeds and extends c: ChainsIndex[c] has max_height = parent height + 1
\* and maps it to the new hash, start_height and the earlier entries are
\* unchanged, the header is stored with block_height = parent height + 1 and
\* chain_ref = c, and no new chain id is allocated.
C10_TipParentExtendsChain ==
    (SubmittedOnStoredParent /\ ParentIsTip) =>
        LET c == LastParent.chain_ref
            height == LastParent.block_height + 1
        IN  /\ last.result = "Ok"
            /\ c \in DOMAIN ChainsIndex
            /\ ChainsIndex[c].max_height = height
            /\ height \in DOMAIN ChainsIndex[c].chain
            /\ ChainsIndex[c].chain[height] = last.hash
            /\ ChainsIndex[c].start_height = LastParentChain.start_height
            /\ \A h \in DOMAIN LastParentChain.chain :
                   h \in DOMAIN ChainsIndex[c].chain
                   /\ ChainsIndex[c].chain[h] = LastParentChain.chain[h]
            /\ last.hash \in DOMAIN BlockHeaders
            /\ BlockHeaders[last.hash].block_height = height
            /\ BlockHeaders[last.hash].chain_ref = c
            /\ ChainCounter = pre.ChainCounter


\* the last call submitted a header that was already stored
Resubmitted ==
    /\ last.op = "store_block_header"
    /\ last.hash \in DOMAIN pre.BlockHeaders
    /\ pre.BlockHeaders[last.hash].hash_prev_block = last.prev

\* C11: store_block_header with the bytes of a header that is already in
\* BlockHeaders is rejected with DuplicateBlock and leaves BlockHeaders,
\* Chains, ChainsIndex, BestBlock, BestBlockHeight and ChainCounter unchanged.
C11_DuplicateRejected ==
    Resubmitted => (last.result = "DuplicateBlock" /\ Storage = pre)

\* the last call submitted a header whose parent is not stored
SubmittedOnUnknownParent ==
    /\ last.op = "store_block_header"
    /\ last.prev \notin DOMAIN pre.BlockHeaders

\* C12: store_block_header for a header whose hash_prev_block is not a key of
\* BlockHeaders is rejected with PrevBlock and changes no storage item.
C12_MissingParentRejected ==
    SubmittedOnUnknownParent => (last.result = "PrevBlock" /\ Storage = pre)

C12_Witness ==
    /\ SubmittedOnUnknownParent
    /\ last.result = "PrevBlock"
    /\ BestBlock # NoHash
    /\ Cardinality(DOMAIN BlockHeaders) >= 2

\* the last call was swap_main_blockchain and it returned an error
SwapFailed ==
    /\ last.op = "swap_main_blockchain"
    /\ last.result \in {"ChainCounterOverflow", "HeaderNotFound", "ForkIdNotFound"}

\* C13: whenever swap_main_blockchain returns an error (ChainCounterOverflow,
\* HeaderNotFound or ForkIdNotFound) every storage item, ChainCounter
\* included, has the value it had before the call.
C13_FailedSwapChangesNothing == SwapFailed => Storage = pre

\* C14: if check_and_do_reorg returns an error while store_block_header is
\* processing a header, store_block_header returns an error, never Ok.
C14_ReorgErrorPropagates ==
    (last.op = "store_block_header" /\ last.reorg.err # "None") => last.result # "Ok"

\* the last call stored a header that was not stored before
StoredNewHeader ==
    /\ last.op = "store_block_header"
    /\ last.hash \in DOMAIN BlockHeaders
    /\ last.hash \notin DOMAIN pre.BlockHeaders

\* the last call submitted a new header on a stored parent with the parent's
\* target, at a height that is no multiple of the adjustment interval
SubmittedWithParentTarget ==
    /\ SubmittedOnStoredParent
    /\ (LastParent.block_height + 1) % DIFFICULTY_ADJUSTMENT_INTERVAL # 0
    /\ last.target = LastParent.target

\* C15: store_block_header stores a header only if its block_hash, read as an
\* unsigned integer, is <= the header's target; a header of valid target with
\* a larger hash is rejected with LowDiff and nothing is stored.
C15_ProofOfWorkEnforced ==
    /\ StoredNewHeader => last.hash <= BlockHeaders[last.hash].target
    /\ (SubmittedWithParentTarget /\ last.hash > last.target) =>
           (last.result = "LowDiff" /\ Storage = pre)

\* C16: store_block_header rejects with DiffTargetHeader every header whose
\* declared target differs from the required one (the parent's target when
\* (parent height + 1) mod 2016 # 0), even if the header's hash is <= its
\* declared target.  Every height the model reaches is off the retarget
\* boundary, so the required target is the parent's.
C16_TargetMismatchRejected ==
    (/\ SubmittedOnStoredParent
     /\ (LastParent.block_height + 1) % DIFFICULTY_ADJUSTMENT_INTERVAL # 0
     /\ last.target # LastParent.target)
        => (last.result = "DiffTargetHeader" /\ Storage = pre)

\* the hashes a header stored by initialize can have
GenesisHashes == {block_hash(NoHash, n) : n \in 1..(NonceBase - 1)}

\* C17: every header in BlockHeaders other than the one stored by initialize
\* has its parent in BlockHeaders and block_height = the parent's + 1, also
\* after reorgs.
C17_HeightIsParentHeightPlusOne ==
    \A x \in (DOMAIN BlockHeaders) \ GenesisHashes :
        /\ BlockHeaders[x].hash_prev_block \in DOMAIN BlockHeaders
        /\ BlockHeaders[x].block_height =
               BlockHeaders[BlockHeaders[x].hash_prev_block].block_height + 1

C17_Witness ==
    /\ Promoted
    /\ last.hash \in DOMAIN BlockHeaders
    /\ BlockHeaders[last.hash].block_height = pre.BlockHeaders[last.prev].block_height + 1
    /\ \E x \in DOMAIN BlockHeaders :
           BlockHeaders[x].chain_ref # pre.BlockHeaders[x].chain_ref

\* Chains of storage s holds positions 0..n-1, the main chain at position 0,
\* sorted by descending max_height
SortedIndex(s) ==
    /\ DOMAIN s.Chains = 0..(Cardinality(DOMAIN s.Chains) - 1)
    /\ 0 \in DOMAIN s.Chains
    /\ s.Chains[0] = MAIN_CHAIN_ID
    /\ \A i, j \in DOMAIN s.Chains :
           i < j => chainindex(s, s.Chains[i]).max_height
                        >= chainindex(s, s.Chains[j]).max_height

\* the chain the last direct call was given
LastArg == last.reorg.fork

\* C18: insert_sorted(c) on an index sorted by descending max_height with the
\* main chain at position 0 places c's id at a position p >= 1 such that every
\* chain at positions 1..p-1 has max_height >= c.max_height and every chain
\* after p has max_height <= c.max_height; the ids previously at positions
\* >= p move back by one, position 0 is untouched and Chains grows by one.
C18_InsertSortedKeepsOrder ==
    (last.op = "insert_sorted" /\ SortedIndex(pre)) =>
        LET n == Cardinality(DOMAIN pre.Chains)
        IN  /\ DOMAIN Chains = 0..n
            /\ Chains[0] = pre.Chains[0]
            /\ \E p \in 1..n :
                   /\ Chains[p] = LastArg.chain_id
                   /\ \A q \in 1..(p - 1) :
                          /\ Chains[q] = pre.Chains[q]
                          /\ chainindex(pre, pre.Chains[q]).max_height
                                 >= LastArg.max_height
                   /\ \A q \in p..(n - 1) :
                          /\ Chains[q + 1] = pre.Chains[q]
                          /\ chainindex(pre, pre.Chains[q]).max_height
                                 <= LastArg.max_height

\* the ids of Chains by ascending position, without id
ChainsWithout(s, id) ==
    LET n == Cardinality(DOMAIN s.Chains)
        Keep(v) == v # id
    IN  SelectSeq([i \in 1..n |-> s.Chains[i - 1]], Keep)

\* the last call was check_and_do_reorg(f) for a fork f of the index whose
\* max_height does not exceed the main chain's
ReorgBelowMain ==
    /\ last.op = "check_and_do_reorg"
    /\ SortedIndex(pre)
    /\ LastArg.chain_id # MAIN_CHAIN_ID
    /\ LastArg.chain_id \in Range(pre.Chains)
    /\ LastArg.max_height <= chainindex(pre, MAIN_CHAIN_ID).max_height

\* C19: check_and_do_reorg(f) for a fork f whose max_height does not exceed the
\* main chain's: on return every chain at a position between 1 and f's new
\* position has max_height >= f.max_height, the relative order of all other
\* chains is unchanged, and ChainsIndex[0], BestBlock and BestBlockHeight are
\* unchanged.
C19_ForkMovesAheadOfOvertaken ==
    ReorgBelowMain =>
        /\ last.result = "None"
        /\ DOMAIN Chains = DOMAIN pre.Chains
        /\ \E p \in (DOMAIN Chains) \ {0} :
               /\ Chains[p] = LastArg.chain_id
               /\ \A q \in 1..(p - 1) :
                      chainindex(Storage, Chains[q]).max_height >= LastArg.max_height
        /\ ChainsWithout(Storage, LastArg.chain_id) = ChainsWithout(pre, LastArg.chain_id)
        /\ chainindex(Storage, MAIN_CHAIN_ID) = chainindex(pre, MAIN_CHAIN_ID)
        /\ BestBlock = pre.BestBlock
        /\ BestBlockHeight = pre.BestBlockHeight

\* the last call was check_and_do_reorg with a chain that is not in the index
ReorgOfUnknownChain ==
    /\ last.op = "check_and_do_reorg"
    /\ LastArg.chain_id # MAIN_CHAIN_ID
    /\ LastArg.chain_id \notin Range(pre.Chains)

\* the last call was check_and_do_reorg with the main chain
ReorgOfMainChain ==
    /\ last.op = "check_and_do_reorg"
    /\ LastArg.chain_id = MAIN_CHAIN_ID

\* C20: check_and_do_reorg called with a chain whose id is not 0 and is not a
\* value of Chains returns ForkIdNotFound and changes no storage item; called
\* with the main chain (id 0) it returns success and changes no storage item.
C20_ReorgOfUnknownOrMainChain ==
    /\ ReorgOfUnknownChain => (last.result = "ForkIdNotFound" /\ Storage = pre)
    /\ ReorgOfMainChain => (last.result = "None" /\ Storage = pre)

C20_Witness ==
    /\ ReorgOfUnknownChain
    /\ last.result = "ForkIdNotFound"
    /\ Cardinality(DOMAIN pre.Chains) >= 2
    /\ LastArg.max_height > chainindex(pre, MAIN_CHAIN_ID).max_height

\* the last call was initialize on a relay that was initialized before
InitializedAgain == last.op = "initialize" /\ pre.BestBlock # NoHash

\* C21: once initialize has succeeded, every later initialize call, after any
\* interleaving of other operations, fails with AlreadyInitialized and leaves
\* BlockHeaders, Chains, ChainsIndex, BestBlock, BestBlockHeight and
\* ChainCounter unchanged.
C21_InitializeOnlyOnce ==
    InitializedAgain => (last.result = "AlreadyInitialized" /\ Storage = pre)

C21_Witness ==
    /\ InitializedAgain
    /\ last.result = "AlreadyInitialized"
    /\ Cardinality(DOMAIN BlockHeaders) >= 2
    /\ last.hash \notin DOMAIN BlockHeaders

Verified == proof.status = "proof" /\ proof_result.result # "none"

\* C22: for every transaction count n >= 1 and every leaf index i < n, the
\* hashes and the flag bits (zero-padded to a byte boundary) that the standard
\* partial-merkle-tree construction produces for the single leaf i make
\* verify_proof succeed with transaction_position = i, transaction_hash =
\* leaf i and extracted_root = the merkle root of the n leaves, computed with
\* the last node of an odd-width level paired with itself.
C22_StandardProofVerifies ==
    \A n \in 1..MaxTransactions : \A i \in 0..(n - 1) :
        (Verified /\ proof.transactions_count = n /\ proof = StandardProof(n, i)) =>
            /\ proof_result.result = "Ok"
            /\ proof_result.transaction_position = i
            /\ proof_result.transaction_hash = Leaf(i)
            /\ proof_result.extracted_root = MerkleRoot(n)

\* a proof over an odd-width level for the leaf that is paired with itself
C22_Witness ==
    /\ Verified
    /\ proof = StandardProof(MaxTransactions, MaxTransactions - 1)
    /\ proof_result.result = "Ok"
    /\ proof_result.transaction_position = MaxTransactions - 1
    /\ compute_tree_width(MaxTransactions, 0) % 2 = 1

\* C23: for every MerkleProof value verify_proof returns Ok, MalformedProof
\* or InvalidProof: the traversal never reads flag_bits or hashes at an index
\* beyond the vector.
C23_VerifyProofNeverReadsOutOfBounds ==
    Verified => proof_result.result \in {"Ok", "MalformedProof", "InvalidProof"}

\* the traversal of the proof, as verify_proof starts it
Traversed ==
    traverse_and_extract(proof, compute_tree_height(proof.transactions_count), 0,
                         NewTraversal)

CeilBytes(bits) == (bits + 7) \div 8

\* the traversal ran to its end
TraversalCompleted ==
    /\ Verified
    /\ proof.transactions_count \in 1..MAX_TRANSACTIONS_IN_PROOF
    /\ Len(proof.flag_bits) >= Len(proof.hashes)
    /\ Traversed.res = "Ok"

\* C24: verify_proof succeeds only if the traversal visited exactly one
\* height-0 node whose flag bit is 1; a proof whose traversal visits no
\* flagged leaf, or two or more, is rejected with InvalidProof.
C24_ExactlyOneFlaggedLeaf ==
    /\ (Verified /\ proof_result.result = "Ok") =>
           proof_result.traversal.flagged = 1
    /\ (TraversalCompleted /\ Traversed.traversal.flagged # 1) =>
           proof_result.result = "InvalidProof"

\* the traversal completed on a flagged leaf and left a hash or a whole flag
\* byte unused
LeftoverInput ==
    /\ TraversalCompleted
    /\ Traversed.traversal.flagged >= 1
    /\ \/ Traversed.traversal.hashes_used < Len(proof.hashes)
       \/ CeilBytes(Traversed.traversal.bits_used) < CeilBytes(Len(proof.flag_bits))

\* C25: whenever verify_proof returns Ok the traversal consumed every hash and
\* every flag byte; a proof whose traversal finds a flagged leaf but leaves a
\* hash or a whole flag byte unused is rejected with MalformedProof.
C25_AllInputConsumed ==
    /\ (Verified /\ proof_result.result = "Ok") =>
           /\ proof_result.traversal.hashes_used = Len(proof.hashes)
           /\ CeilBytes(proof_result.traversal.bits_used)
                  = CeilBytes(Len(proof.flag_bits))
    /\ LeftoverInput => proof_result.result = "MalformedProof"

\* a whole flag byte is left unused although every hash was consumed
C25_Witness ==
    /\ LeftoverInput
    /\ Traversed.traversal.hashes_used = Len(proof.hashes)
    /\ proof_result.result = "MalformedProof"

RejectedUpFront ==
    \/ proof.transactions_count = 0
    \/ proof.transactions_count > 16666
    \/ Len(proof.flag_bits) < Len(proof.hashes)

\* C26: verify_proof rejects with MalformedProof, before any traversal step,
\* every proof with transactions_count = 0, with transactions_count > 16666
\* (= MAX_BLOCK_WEIGHT / MIN_TRANSACTION_WEIGHT), or with fewer flag bits than
\* hashes.
C26_PreconditionsRejected ==
    /\ MAX_TRANSACTIONS_IN_PROOF = 16666
    /\ (Verified /\ RejectedUpFront) =>
           /\ proof_result.result = "MalformedProof"
           /\ proof_result.traversal = NewTraversal

\* fewer flag bits than hashes, the transaction count being in range
C26_Witness ==
    /\ Verified
    /\ proof.transactions_count \in 1..16666
    /\ Len(proof.flag_bits) < Len(proof.hashes)
    /\ proof_result.result = "MalformedProof"
    /\ proof_result.traversal = NewTraversal

\* C27: MerkleProof::parse applied to any byte sequence, also one shorter than
\* 87 bytes or one that declares more hashes or flag bytes than remain, never
\* indexes the buffer past its end.
C27_ParseNeverReadsPastEnd ==
    proof.status # "panic"

InclusionChecked == last.op = "verify_transaction_inclusion"

\* C28: verify_transaction_inclusion returns Ok only if the submitted proof
\* parses and verifies, a header is stored at the claimed height of the main
\* chain, and that block has the required confirmations.
C28_InclusionOnlyWhenProven ==
    (InclusionChecked /\ last.result = "Ok") =>
        /\ parse(merkle_proof).status = "proof"
        /\ verify_proof(parse(merkle_proof)).result = "Ok"
        /\ last.height \in DOMAIN chainindex(Storage, MAIN_CHAIN_ID).chain
        /\ last.height + last.confirmations <= BestBlockHeight + 1

FlaggedOk == last.op = "flag_block_error" /\ last.result = "Ok"

\* C29: after flag_block_error succeeds for a stored header of height h on
\* chain c, ChainsIndex[c] has h in no_data (NoDataBTCRelay) or in invalid
\* (InvalidBTCRelay); the chain's mapping, start_height, max_height and the
\* other set are unchanged.
C29_FlagIsStored ==
    FlaggedOk =>
        LET header == blockheader(pre, last.hash)
            before == chainindex(pre, header.chain_ref)
            now == chainindex(Storage, header.chain_ref)
        IN  /\ now.chain = before.chain
            /\ now.start_height = before.start_height
            /\ now.max_height = before.max_height
            /\ IF last.error = "NoDataBTCRelay"
               THEN /\ header.block_height \in Range(now.no_data)
                    /\ now.invalid = before.invalid
               ELSE /\ header.block_height \in Range(now.invalid)
                    /\ now.no_data = before.no_data

ClearedOnStoredHeader ==
    /\ last.op = "clear_block_error"
    /\ last.hash \in DOMAIN pre.BlockHeaders
    /\ last.error \in {"NoDataBTCRelay", "InvalidBTCRelay"}

\* C30: clear_block_error for a stored header of height h on chain c with
\* kind NoDataBTCRelay or InvalidBTCRelay always completes with a definite
\* result, whether or not h is flagged; after it succeeds the corresponding
\* set of ChainsIndex[c] does not contain h, and the other set and the
\* chain's mapping are unchanged.
C30_ClearAlwaysCompletes ==
    ClearedOnStoredHeader =>
        LET header == blockheader(pre, last.hash)
            before == chainindex(pre, header.chain_ref)
            now == chainindex(Storage, header.chain_ref)
        IN  /\ last.result # "Panic"
            /\ last.result = "Ok" =>
                   /\ now.chain = before.chain
                   /\ IF last.error = "NoDataBTCRelay"
                      THEN /\ header.block_height \notin Range(now.no_data)
                           /\ now.invalid = before.invalid
                      ELSE /\ header.block_height \notin Range(now.invalid)
                           /\ now.no_data = before.no_data

\* a store_block_header call replaced the main chain's mapping or the best block
MainReplaced ==
    /\ last.op = "store_block_header"
    /\ \/ chainindex(Storage, MAIN_CHAIN_ID).chain # OldMain.chain
       \/ BestBlock # pre.BestBlock
       \/ BestBlockHeight # pre.BestBlockHeight

\* C31: across any sequence of store_block_header calls, ChainsIndex[0]'s
\* mapping, BestBlock and BestBlockHeight are replaced by a fork's only when
\* that fork's max_height is strictly greater than the main chain's; a fork
\* that reaches the same height does not displace the main chain.
C31_PromotionOnlyOnStrictOvertake ==
    MainReplaced =>
        /\ LastFork.chain_id # MAIN_CHAIN_ID
        /\ LastFork.max_height > OldMain.max_height

\* a second call promotes a fork that is one block ahead of the main chain
C31_Witness ==
    /\ MainReplaced
    /\ Promoted
    /\ calls = MaxStores
    /\ LastFork.max_height = OldMain.max_height + 1
    /\ BestBlockHeight = LastFork.max_height

ReorgCalled == last.op = "check_and_do_reorg"

PromotedCall ==
    /\ last.op \in {"swap_main_blockchain", "check_and_do_reorg"}
    /\ last.reorg.promoted
    /\ LastFork.chain_id # MAIN_CHAIN_ID
    /\ LastFork.chain_id \in DOMAIN pre.ChainsIndex
    /\ LastFork.max_height \in DOMAIN LastFork.chain

HeightsFrom(flags, start_height) == {h \in Range(flags) : h >= start_height}

HeightsBelow(flags, start_height) == {h \in Range(flags) : h < start_height}

\* C33: after a promotion of fork f, for each of no_data and invalid, the
\* displaced chain's set is exactly the old main chain's flagged heights
\* >= f.start_height, and the new main chain's set is exactly the old main
\* chain's flagged heights < f.start_height together with f's flagged heights,
\* whatever the order in which the flags were recorded.
C33_FlagsSplitAtStartHeight ==
    PromotedCall =>
        LET f == LastFork
            displaced == chainindex(Storage, ChainCounter)
            main == chainindex(Storage, MAIN_CHAIN_ID)
        IN  /\ Range(displaced.no_data) = HeightsFrom(OldMain.no_data, f.start_height)
            /\ Range(displaced.invalid) = HeightsFrom(OldMain.invalid, f.start_height)
            /\ Range(main.no_data) = HeightsBelow(OldMain.no_data, f.start_height)
                                         \cup Range(f.no_data)
            /\ Range(main.invalid) = HeightsBelow(OldMain.invalid, f.start_height)
                                         \cup Range(f.invalid)

TreeComputed == proof_result.result = "tree"

CeilDiv(n, d) == (n \div d) + (IF n % d = 0 THEN 0 ELSE 1)

\* C34: for every transactions_count n in 1..16666 and every height h up to
\* the tree height, compute_tree_width(h) = ceil(n / 2^h), computed without
\* overflow of the shift or of the sum, and compute_tree_height is the
\* smallest h with ceil(n / 2^h) = 1, at most 15.
C34_TreeWidthAndHeight ==
    TreeComputed =>
        LET n == proof.transactions_count
            height == proof_result.height
        IN  /\ \A h \in 0..height :
                   /\ proof_result.widths[h] = CeilDiv(n, Pow2(h))
                   /\ h < 32
                   /\ n + Pow2(h) - 1 <= U32_MAX
            /\ CeilDiv(n, Pow2(height)) = 1
            /\ \A h \in 0..(height - 1) : CeilDiv(n, Pow2(h)) # 1
            /\ height <= 15

\* the largest count, an odd width on the way, the greatest height
C34_Witness ==
    /\ TreeComputed
    /\ proof.transactions_count = 16666
    /\ proof_result.height = 15
    /\ proof_result.widths[1] = 8333
    /\ proof_result.widths[2] = 4167

\* the ids the last call added to ChainsIndex, and those it removed
NewChainIds == (DOMAIN ChainsIndex) \ (DOMAIN pre.ChainsIndex)

DeletedChainIds == (DOMAIN pre.ChainsIndex) \ (DOMAIN ChainsIndex)

\* C35: chain ids are never reused: every id handed out for a new chain is
\* non-zero and greater than every id handed out before (all of which are
\* at most the ChainCounter of that time), ChainCounter never decreases, and
\* so the id of a fork deleted by a promotion is never assigned again.
C35_ChainIdsNeverReused ==
    /\ ChainCounter >= pre.ChainCounter
    /\ \A id \in DOMAIN ChainsIndex : id <= ChainCounter
    /\ \A id \in DeletedChainIds : id <= pre.ChainCounter
    /\ last.op # "initialize" =>
           \A id \in NewChainIds : id # MAIN_CHAIN_ID /\ id > pre.ChainCounter

\* a promotion after an earlier call: the displaced suffix got the next id
\* and the promoted fork's id is gone
C35_Witness ==
    /\ Promoted
    /\ calls = MaxStores
    /\ NewChainIds = {ChainCounter}
    /\ ChainCounter = pre.ChainCounter + 1
    /\ DeletedChainIds = {LastFork.chain_id}

\* C36: once a header is in BlockHeaders, its header fields and its
\* block_height never change under any later operation, and its chain_ref
\* changes only in a call that performs a promotion.
C36_StoredHeaderIsImmutable ==
    \A x \in DOMAIN pre.BlockHeaders :
        /\ x \in DOMAIN BlockHeaders
        /\ BlockHeaders[x].hash_prev_block = pre.BlockHeaders[x].hash_prev_block
        /\ BlockHeaders[x].target = pre.BlockHeaders[x].target
        /\ BlockHeaders[x].block_height = pre.BlockHeaders[x].block_height
        /\ BlockHeaders[x].chain_ref # pre.BlockHeaders[x].chain_ref =>
               last.reorg.promoted

\* C37: in every reachable state every stored header is indexed by the chain
\* it points to: for hash x, height h and chain_ref c, ChainsIndex[c] exists,
\* start_height <= h <= max_height and ChainsIndex[c].chain[h] = x; and every
\* hash in a chain's mapping is a key of BlockHeaders.
C37_HeadersIndexedByTheirChain ==
    /\ \A x \in DOMAIN BlockHeaders :
           LET h == BlockHeaders[x].block_height
               c == BlockHeaders[x].chain_ref
           IN  /\ c \in DOMAIN ChainsIndex
               /\ ChainsIndex[c].start_height <= h
               /\ h <= ChainsIndex[c].max_height
               /\ h \in DOMAIN ChainsIndex[c].chain
               /\ ChainsIndex[c].chain[h] = x
    /\ \A c \in DOMAIN ChainsIndex :
           Range(ChainsIndex[c].chain) \subseteq DOMAIN BlockHeaders

Initialized == BestBlock # NoHash

\* C38: in every reachable state after initialize, BestBlockHeight =
\* ChainsIndex[0].max_height, BestBlock = ChainsIndex[0].chain[max_height],
\* and BestBlock is the highest header stored with chain_ref 0.
C38_BestBlockIsMainTip ==
    Initialized =>
        LET main == chainindex(Storage, MAIN_CHAIN_ID)
        IN  /\ BestBlockHeight = main.max_height
            /\ main.max_height \in DOMAIN main.chain
            /\ BestBlock = main.chain[main.max_height]
            /\ BestBlock \in DOMAIN BlockHeaders
            /\ \A x \in DOMAIN BlockHeaders :
                   BlockHeaders[x].chain_ref = MAIN_CHAIN_ID =>
                       BlockHeaders[x].block_height <= BlockHeaders[BestBlock].block_height

\* C39: across any sequence of operations after initialize, BestBlockHeight
\* and the main chain's max_height never decrease, and the main chain's tip
\* is replaced only by a strictly higher one.
C39_BestHeightNeverDecreases ==
    pre.BestBlock # NoHash =>
        /\ BestBlockHeight >= pre.BestBlockHeight
        /\ chainindex(Storage, MAIN_CHAIN_ID).max_height >= OldMain.max_height
        /\ BestBlock # pre.BestBlock =>
               /\ BestBlockHeight > pre.BestBlockHeight
               /\ chainindex(Storage, MAIN_CHAIN_ID).max_height > OldMain.max_height

\* a reorg replaced the tip after an earlier call
C39_Witness ==
    /\ pre.BestBlock # NoHash
    /\ calls = MaxStores
    /\ last.reorg.promoted
    /\ BestBlock # pre.BestBlock
    /\ BestBlockHeight = pre.BestBlockHeight + 1

\* C40: in every reachable state Chains and ChainsIndex describe the same
\* chains: the keys of Chains are the positions 0..n-1, its values are
\* pairwise distinct, and the set of its values is the set of ids stored in
\* ChainsIndex.
C40_ChainsMatchesChainsIndex ==
    /\ DOMAIN Chains = 0..(Cardinality(DOMAIN Chains) - 1)
    /\ \A p, q \in DOMAIN Chains : p # q => Chains[p] # Chains[q]
    /\ Range(Chains) = DOMAIN ChainsIndex

=============================================================================
